---- MODULE Spec2Model ----
(***************************************************************************)
(* A model of foundry_to_docx.py: the per-session message classification   *)
(* loop of process_file, the helpers it calls, and the cross-session       *)
(* aggregation done by main and read back by write_omitted_doc.            *)
(*                                                                         *)
(* Text is a sequence of lexical tokens (a markup tag, an escaped entity,  *)
(* a whitespace character, or a run of other characters), so that          *)
(* stripping, collapsing, trimming and searching are computed, not assumed.*)
(* JSON values are records tagged by their type; a dict is a function      *)
(* whose DOMAIN is its key set, so an absent key differs from a null one.  *)
(***************************************************************************)
EXTENDS Integers, Sequences, FiniteSets, TLC

VARIABLES
    CONFIG,              \* the option mapping (module global CONFIG)
    pc,                  \* "main": between sessions, "loop": inside the message loop, "done"
    session_index,       \* idx of main's enumerate(files, start=1); 0 before the first
    session_data,        \* process_file's local data: the parsed session file
    title,               \* process_file's local: the session title
    messages,            \* the messages of the current session consumed so far
    last_key,            \* process_file's local last_key
    removed_list,        \* process_file's local removed_list
    doc,                 \* paragraphs process_file has appended to the document
    DELETED_DUPLICATES,  \* module global: (session_index, title, removed_list) per session
    SESSION_DATES,       \* module global: one date (or None) per session
    omitted_doc          \* paragraphs of the omission report (write_omitted_doc)

vars == <<CONFIG, pc, session_index, session_data, title, messages, last_key, removed_list,
          doc, DELETED_DUPLICATES, SESSION_DATES, omitted_doc>>

----------------------------------------------------------------------------
(* JSON values and Python truthiness *)

None == <<>>
JNull == [t |-> "null"]
JStr(s) == [t |-> "str", s |-> s]
JBool(b) == [t |-> "bool", b |-> b]
JList(l) == [t |-> "list", l |-> l]
JObj(o) == [t |-> "obj", o |-> o]
EmptyDict == <<>>

Get(d, k, default) == IF k \in DOMAIN d THEN d[k] ELSE default

Truthy(v) ==
    CASE v.t = "null" -> FALSE
      [] v.t = "str"  -> v.s # <<>>
      [] v.t = "bool" -> v.b
      [] v.t = "list" -> v.l # <<>>
      [] v.t = "obj"  -> DOMAIN v.o # {}

----------------------------------------------------------------------------
(* Tokens *)

OpenTags == {"<p>", "<b>", "<div class='dice-roll'>",
             "<span class='dice-formula'>", "<span class='dice-total'>"}
CloseTags == {"</p>", "</b>", "</div>", "</span>"}
IsTag(t) == t \in OpenTags \cup CloseTags
IsSpace(t) == t \in {" ", "\n"}

\* html.parser turns a character reference into the character it names
Unescape(t) ==
    CASE t = "&lt;b&gt;"  -> "<b>"
      [] t = "&lt;/b&gt;" -> "</b>"
      [] t = "&amp;"      -> "&"
      [] OTHER            -> t

\* tokens that neither start nor end with a regex word character
NonWord == {" ", "\n", "#", "->", "(", ")", "?", "&", "<b>", "</b>",
            "&lt;b&gt;", "&lt;/b&gt;", "&amp;"} \cup OpenTags \cup CloseTags
IsWord(t) == t \notin NonWord

Lower(t) ==
    CASE t = "AFK"    -> "afk"
      [] t = "BRB"    -> "brb"
      [] t = "Brb"    -> "brb"
      [] t = "GMRoll" -> "gmroll"
      [] t = "Self"   -> "self"
      [] t = "YES"    -> "yes"
      [] t = "Yes"    -> "yes"
      [] t = "NO"     -> "no"
      [] OTHER        -> t

Upper(t) ==
    CASE t = "yes"   -> "YES"
      [] t = "Yes"   -> "YES"
      [] t = "no"    -> "NO"
      [] t = "maybe" -> "MAYBE"
      [] t = "true"  -> "TRUE"
      [] OTHER       -> t

lower(s) == [i \in 1..Len(s) |-> Lower(s[i])]

upper(s) == [i \in 1..Len(s) |-> Upper(s[i])]

RECURSIVE lstrip(_)
lstrip(s) == IF s # <<>> /\ IsSpace(Head(s)) THEN lstrip(Tail(s)) ELSE s

RECURSIVE rstrip(_)
rstrip(s) ==
    IF s # <<>> /\ IsSpace(s[Len(s)]) THEN rstrip(SubSeq(s, 1, Len(s) - 1)) ELSE s

\* str.strip()
strip(s) == rstrip(lstrip(s))

----------------------------------------------------------------------------
(* clean_html *)

\* BeautifulSoup(...).get_text(separator=""): tags are dropped, entities are
\* decoded, the text nodes are concatenated directly
RECURSIVE get_text(_)
get_text(s) ==
    IF s = <<>> THEN <<>>
    ELSE IF IsTag(Head(s)) THEN get_text(Tail(s))
    ELSE <<Unescape(Head(s))>> \o get_text(Tail(s))

\* re.sub(r"\s+", " ", text)
RECURSIVE collapse_ws(_)
collapse_ws(s) ==
    IF s = <<>> THEN <<>>
    ELSE IF IsSpace(Head(s)) THEN <<" ">> \o collapse_ws(lstrip(Tail(s)))
    ELSE <<Head(s)>> \o collapse_ws(Tail(s))

clean_html(content) ==
    LET src == IF Truthy(content) THEN content.s ELSE <<>>
    IN  strip(collapse_ws(get_text(src)))

----------------------------------------------------------------------------
(* Configuration *)

ToggleKeys == {"OMIT_AFK_MESSAGES", "SUBHEAD_BOOKMARKS", "OMIT_WHISPERS",
               "OMIT_PRIVATE_GM_ROLLS", "OMIT_BLIND_GM_ROLLS",
               "OMIT_SELF_ROLLS", "OMIT_PUBLIC_ROLLS"}

\* the module-level CONFIG literal, restricted to the keys the classifier reads
DefaultConfig ==
    [k \in ToggleKeys \cup {"DEFAULT_SPEAKER"} |->
        IF k = "DEFAULT_SPEAKER" THEN <<"Handler">>
        ELSE IF k = "OMIT_PUBLIC_ROLLS" THEN <<"NO">>
        ELSE <<"YES">>]

\* load_config: CONFIG[k] = v for a line k=v of cfg.txt
WithOption(cfg, k, v) == [x \in DOMAIN cfg \cup {k} |-> IF x = k THEN v ELSE cfg[x]]

is_yes(key) == upper(strip(Get(CONFIG, key, <<"NO">>))) = <<"YES">>

DefaultSpeaker == Get(CONFIG, "DEFAULT_SPEAKER", <<"Handler">>)

\* (msg.get("speaker") or {}).get("alias") or CONFIG.get("DEFAULT_SPEAKER", "Handler")
speaker_of(msg) ==
    LET sp  == Get(msg, "speaker", JNull)
        obj == IF Truthy(sp) THEN sp.o ELSE EmptyDict
        al  == Get(obj, "alias", JNull)
    IN  IF Truthy(al) THEN al.s ELSE DefaultSpeaker

----------------------------------------------------------------------------
(* AFK and subheader patterns *)

\* afk_re.search(cleaned) for the default AFK_PATTERN \b(afk|brb)\b, IGNORECASE
afk_search(cleaned) ==
    \E i \in 1..Len(cleaned) :
        /\ Lower(cleaned[i]) \in {"afk", "brb"}
        /\ (i = 1 \/ ~IsWord(cleaned[i - 1]))
        /\ (i = Len(cleaned) \/ ~IsWord(cleaned[i + 1]))

\* re.match(r"^\s*#{3}\s+(.*)$", cleaned): whether it matches, and group(1)
subheader_match(cleaned) ==
    LET s    == lstrip(cleaned)
        ok   == /\ Len(s) >= 4
                /\ s[1] = "#" /\ s[2] = "#" /\ s[3] = "#"
                /\ IsSpace(s[4])
        rest == IF ok THEN lstrip(SubSeq(s, 4, Len(s))) ELSE <<>>
        line == \A i \in 1..Len(rest) : rest[i] = "\n" => i = Len(rest)
    IN  [matched |-> ok /\ line,
         group   |-> IF rest # <<>> /\ rest[Len(rest)] = "\n"
                     THEN SubSeq(rest, 1, Len(rest) - 1) ELSE rest]

----------------------------------------------------------------------------
(* extract_roll_info *)

\* the index of the first token equal to tag, or 0: soup.select_one(".<class>")
RECURSIVE find_first(_, _, _)
find_first(s, tag, i) ==
    IF i > Len(s) THEN 0
    ELSE IF s[i] = tag THEN i
    ELSE find_first(s, tag, i + 1)

\* the tokens of an element's content: up to its matching closing tag, or to
\* the end of input when the element is left open
RECURSIVE element_inner(_, _)
element_inner(s, depth) ==
    IF s = <<>> THEN <<>>
    ELSE IF Head(s) \in CloseTags
         THEN IF depth = 0 THEN <<>>
              ELSE <<Head(s)>> \o element_inner(Tail(s), depth - 1)
    ELSE IF Head(s) \in OpenTags
         THEN <<Head(s)>> \o element_inner(Tail(s), depth + 1)
    ELSE <<Head(s)>> \o element_inner(Tail(s), depth)

\* element.get_text(strip=True): every text node stripped, empty ones
\* skipped, the rest concatenated
RECURSIVE get_text_strip(_, _)
get_text_strip(s, node) ==
    IF s = <<>> THEN strip(node)
    ELSE IF IsTag(Head(s)) THEN strip(node) \o get_text_strip(Tail(s), <<>>)
    ELSE get_text_strip(Tail(s), Append(node, Unescape(Head(s))))

\* the text of the first element carrying the class, "?" without one
select_text(content, tag) ==
    LET i == find_first(content, tag, 1)
    IN  IF i = 0 THEN <<"?">>
        ELSE get_text_strip(element_inner(SubSeq(content, i + 1, Len(content)), 0), <<>>)

\* "dice-roll" in content
has_roll_marker(content) ==
    \E i \in 1..Len(content) : content[i] \in {"<div class='dice-roll'>", "dice-roll"}

\* re.sub(r"<[^>]+>", "", flavor).strip()
flavor_text_of(flavor) == strip(SelectSeq(flavor, LAMBDA t : ~IsTag(t)))

extract_roll_info(msg) ==
    LET content == Get(msg, "content", JStr(<<>>)).s
        flavor  == Get(msg, "flavor", JStr(<<>>)).s
        speaker == speaker_of(msg)
        formula == select_text(content, "<span class='dice-formula'>")
        total   == select_text(content, "<span class='dice-total'>")
        flavor_text == flavor_text_of(flavor)
        result  == speaker \o <<" ", "rolls", " ">> \o formula
                           \o <<" ", "->", " ">> \o total
    IN  IF has_roll_marker(content)
        THEN IF flavor_text # <<>>
             THEN result \o <<" ", "(">> \o flavor_text \o <<")">>
             ELSE result
        ELSE None

----------------------------------------------------------------------------
(* should_omit_visibility *)

NoReason == ""

\* (msg.get("rollMode") or "").strip().lower()
roll_mode_of(msg) ==
    LET rm == Get(msg, "rollMode", JNull)
    IN  lower(strip(IF Truthy(rm) THEN rm.s ELSE <<>>))

\* Variant: the blind flag consulted before the whisper list
should_omit_visibility_blind_first(msg) ==
    LET whisper   == Get(msg, "whisper", JNull)
        blind     == Get(msg, "blind", JBool(FALSE))
        roll_mode == roll_mode_of(msg)
    IN  IF Truthy(blind) /\ is_yes("OMIT_BLIND_GM_ROLLS")
            THEN [omit |-> TRUE, reason |-> "BLIND"]
        ELSE IF Truthy(whisper) /\ is_yes("OMIT_WHISPERS")
            THEN [omit |-> TRUE, reason |-> "WHISPER"]
        ELSE IF roll_mode \in {<<"gmroll">>, <<"gm">>, <<"gm-roll">>}
                /\ is_yes("OMIT_PRIVATE_GM_ROLLS")
            THEN [omit |-> TRUE, reason |-> "PRIVATE_GM_ROLL"]
        ELSE IF roll_mode \in {<<"blind">>, <<"blindroll">>, <<"blind-roll">>}
                /\ is_yes("OMIT_BLIND_GM_ROLLS")
            THEN [omit |-> TRUE, reason |-> "BLIND"]
        ELSE IF roll_mode \in {<<"self">>, <<"selfroll">>, <<"self-roll">>}
                /\ is_yes("OMIT_SELF_ROLLS")
            THEN [omit |-> TRUE, reason |-> "SELF_ROLL"]
        ELSE IF roll_mode \in {<<"public">>, <<"publicroll">>, <<"public-roll">>}
                /\ is_yes("OMIT_PUBLIC_ROLLS")
            THEN [omit |-> TRUE, reason |-> "PUBLIC_ROLL"]
        ELSE [omit |-> FALSE, reason |-> NoReason]

should_omit_visibility(msg) ==
    LET whisper   == Get(msg, "whisper", JNull)
        blind     == Get(msg, "blind", JBool(FALSE))
        roll_mode == roll_mode_of(msg)
    IN  IF Truthy(whisper) /\ is_yes("OMIT_WHISPERS")
            THEN [omit |-> TRUE, reason |-> "WHISPER"]
        ELSE IF Truthy(blind) /\ is_yes("OMIT_BLIND_GM_ROLLS")
            THEN [omit |-> TRUE, reason |-> "BLIND"]
        ELSE IF roll_mode \in {<<"gmroll">>, <<"gm">>, <<"gm-roll">>}
                /\ is_yes("OMIT_PRIVATE_GM_ROLLS")
            THEN [omit |-> TRUE, reason |-> "PRIVATE_GM_ROLL"]
        ELSE IF roll_mode \in {<<"blind">>, <<"blindroll">>, <<"blind-roll">>}
                /\ is_yes("OMIT_BLIND_GM_ROLLS")
            THEN [omit |-> TRUE, reason |-> "BLIND"]
        ELSE IF roll_mode \in {<<"self">>, <<"selfroll">>, <<"self-roll">>}
                /\ is_yes("OMIT_SELF_ROLLS")
            THEN [omit |-> TRUE, reason |-> "SELF_ROLL"]
        ELSE IF roll_mode \in {<<"public">>, <<"publicroll">>, <<"public-roll">>}
                /\ is_yes("OMIT_PUBLIC_ROLLS")
            THEN [omit |-> TRUE, reason |-> "PUBLIC_ROLL"]
        ELSE [omit |-> FALSE, reason |-> NoReason]

----------------------------------------------------------------------------
(* parse_iso_or_epoch and get_session_date *)

\* An integer is written as its base-1000 limbs, most significant first
\* (1700000000 is <<1, 700, 000, 000>>), so that epoch milliseconds stay
\* within the range of TLC integers. A date string is tagged by its form.
JNum(limbs) == [t |-> "int", limbs |-> limbs]
JDigits(limbs) == [t |-> "str", form |-> "digits", limbs |-> limbs]
JIso(y, m, d, z) == [t |-> "str", form |-> "iso", y |-> y, m |-> m, d |-> d, z |-> z]
JJunk == [t |-> "str", form |-> "junk"]

RECURSIVE drop_zeros(_)
drop_zeros(l) == IF l # <<>> /\ Head(l) = 0 THEN drop_zeros(Tail(l)) ELSE l

\* v > 1e12, 10^12 being a one followed by four zero limbs
exceeds_1e12(limbs) ==
    LET l == drop_zeros(limbs)
    IN  \/ Len(l) > 5
        \/ Len(l) = 5 /\ (l[1] > 1 \/ \E i \in 2..5 : l[i] > 0)

\* floor(limbs / 86400) by long division in base 1000; -1 when the day is past
\* 9999-12-31 (day 2932896 from 1970-01-01), the last one datetime can hold
RECURSIVE day_of(_, _, _)
day_of(l, q, r) ==
    IF q > 2932896 THEN -1
    ELSE IF l = <<>> THEN q
    ELSE LET cur == r * 1000 + Head(l)
         IN  day_of(Tail(l), q * 1000 + cur \div 86400, cur % 86400)

\* the proleptic Gregorian date of a day number
civil_from_days(z) ==
    LET zz  == z + 719468
        era == zz \div 146097
        doe == zz - era * 146097
        yoe == (doe - doe \div 1460 + doe \div 36524 - doe \div 146096) \div 365
        doy == doe - (365 * yoe + yoe \div 4 - yoe \div 100)
        mp  == (5 * doy + 2) \div 153
        d   == doy - (153 * mp + 2) \div 5 + 1
        m   == IF mp < 10 THEN mp + 3 ELSE mp - 9
        y   == yoe + era * 400 + (IF m <= 2 THEN 1 ELSE 0)
    IN  <<y, m, d>>

\* the whole seconds handed to datetime.fromtimestamp: v / 1000.0 when
\* v > 1e12 (the last limb is the milliseconds), else v
epoch_seconds(limbs) ==
    drop_zeros(IF exceeds_1e12(limbs) THEN SubSeq(limbs, 1, Len(limbs) - 1) ELSE limbs)

\* Variant: every epoch taken as seconds
from_epoch_as_seconds(limbs) ==
    LET day == day_of(drop_zeros(limbs), 0, 0)
    IN  IF day < 0 THEN None ELSE civil_from_days(day)

\* datetime.fromtimestamp(...): the date, or None when it raises
from_epoch(limbs) ==
    LET day == day_of(epoch_seconds(limbs), 0, 0)
    IN  IF day < 0 THEN None ELSE civil_from_days(day)

parse_iso_or_epoch(value) ==
    IF value.t = "null" THEN None
    ELSE IF value.t = "int" THEN from_epoch(value.limbs)
    ELSE IF value.t = "str" /\ value.form = "digits" THEN from_epoch(value.limbs)
    ELSE IF value.t = "str" /\ value.form = "iso" THEN <<value.y, value.m, value.d>>
    ELSE None

MonthName(m) ==
    <<"January", "February", "March", "April", "May", "June", "July",
      "August", "September", "October", "November", "December">>[m]

\* fmt: "<Month> <day>, <year>"
fmt(dt) == IF dt = None THEN None ELSE <<MonthName(dt[2]), dt[3], dt[1]>>

DateKeys == <<"created", "createdTime", "modified", "modifiedTime", "timestamp">>
StatsKeys == <<"createdTime", "modifiedTime">>

\* Variant: the top level probed before the nested data block
RECURSIVE key_candidates_top_first(_, _, _)
key_candidates_top_first(d_block, data, keys) ==
    IF keys = <<>> THEN <<>>
    ELSE (IF Head(keys) \in DOMAIN data THEN <<data[Head(keys)]>> ELSE <<>>)
         \o (IF Head(keys) \in DOMAIN d_block THEN <<d_block[Head(keys)]>> ELSE <<>>)
         \o key_candidates_top_first(d_block, data, Tail(keys))

RECURSIVE key_candidates(_, _, _)
key_candidates(d_block, data, keys) ==
    IF keys = <<>> THEN <<>>
    ELSE (IF Head(keys) \in DOMAIN d_block THEN <<d_block[Head(keys)]>> ELSE <<>>)
         \o (IF Head(keys) \in DOMAIN data THEN <<data[Head(keys)]>> ELSE <<>>)
         \o key_candidates(d_block, data, Tail(keys))

RECURSIVE first_date(_)
first_date(candidates) ==
    IF candidates = <<>> THEN None
    ELSE LET dt == parse_iso_or_epoch(Head(candidates))
         IN  IF dt # None THEN fmt(dt) ELSE first_date(Tail(candidates))

get_session_date(data) ==
    LET dv      == Get(data, "data", JObj(EmptyDict))
        d_block == IF dv.t = "obj" THEN dv.o ELSE EmptyDict
        sv      == Get(d_block, "_stats", JNull)
        stats   == IF sv.t = "obj" THEN sv.o ELSE EmptyDict
    IN  first_date(key_candidates(d_block, data, DateKeys)
                   \o key_candidates(stats, EmptyDict, StatsKeys))

\* (data.get("data", {}) or {}).get("title") or data.get("title") or basename(filepath)
title_of(file) ==
    LET dv    == Get(file.data, "data", JObj(EmptyDict))
        inner == IF Truthy(dv) THEN dv.o ELSE EmptyDict
        t1    == Get(inner, "title", JNull)
        t2    == Get(file.data, "title", JNull)
    IN  IF Truthy(t1) THEN t1.s
        ELSE IF Truthy(t2) THEN t2.s
        ELSE file.name

----------------------------------------------------------------------------
(* process_file: what one pass of the message loop does to doc, to           *)
(* removed_list and to last_key. doc holds the content paragraphs only:      *)
(* page-break and blank spacing paragraphs are layout and are left out.      *)

Styled(speaker, content, style) ==
    [kind |-> "styled", speaker |-> speaker, text |-> content, style |-> style]

\* Variant: a dropped message that leaves last_key alone
drop_out_keep(last) ==
    [paras |-> <<>>, removed |-> <<>>, last_key |-> last]

\* raw is None, or cleaned is empty: last_key = None; continue
drop_out(last) ==
    [paras |-> <<>>, removed |-> <<>>, last_key |-> None]

\* Variant: the AFK branch without its continue: the message is also rendered
afk_out_and_block(alias, cleaned, last) ==
    [paras |-> << Styled(alias, cleaned, 0) >>,
     removed |-> << <<"AFK", alias, cleaned>> >>,
     last_key |-> last]

\* Variant: an AFK omission that clears last_key
afk_out_reset(alias, cleaned, last) ==
    [paras |-> <<>>, removed |-> << <<"AFK", alias, cleaned>> >>, last_key |-> None]

\* the AFK branch: removed_list.append(("AFK", speaker, cleaned)); continue
afk_out(alias, cleaned, last) ==
    [paras |-> <<>>, removed |-> << <<"AFK", alias, cleaned>> >>, last_key |-> last]

\* Variant: a subheader that leaves last_key alone
subheader_out_keep(group, last) ==
    LET subtext == strip(group)
    IN  [paras   |-> IF subtext # <<>>
                     THEN << [kind |-> "subheader", text |-> subtext] >> ELSE <<>>,
         removed |-> <<>>,
         last_key |-> last]

\* the subheader branch: add_subheader_paragraph when the title is not empty;
\* last_key = None; continue
subheader_out(group, last) ==
    LET subtext == strip(group)
    IN  [paras   |-> IF subtext # <<>>
                     THEN << [kind |-> "subheader", text |-> subtext] >> ELSE <<>>,
         removed |-> <<>>,
         last_key |-> None]

\* Variant: a visibility omission that clears last_key
visibility_out_reset(reason, alias, cleaned, last) ==
    [paras |-> <<>>,
     removed |-> << <<IF reason # NoReason THEN reason ELSE "VISIBILITY", alias, cleaned>> >>,
     last_key |-> None]

\* the visibility branch: removed_list.append((reason or "VISIBILITY", ...)); continue
visibility_out(reason, alias, cleaned, last) ==
    [paras |-> <<>>,
     removed |-> << <<IF reason # NoReason THEN reason ELSE "VISIBILITY", alias, cleaned>> >>,
     last_key |-> last]

\* Variant: a suppressed duplicate that clears last_key
duplicate_out_reset(alias, cleaned, last) ==
    [paras |-> <<>>, removed |-> << <<"DUPLICATE", alias, cleaned>> >>, last_key |-> None]

\* key == last_key: removed_list.append(("DUPLICATE", ...)); continue
duplicate_out(alias, cleaned, last) ==
    [paras |-> <<>>, removed |-> << <<"DUPLICATE", alias, cleaned>> >>, last_key |-> last]

\* the roll branch: the summary is rendered and becomes the text of last_key
roll_out(alias, roll_summary) ==
    [paras |-> << Styled(alias, roll_summary, 0) >>,
     removed |-> <<>>,
     last_key |-> <<strip(alias), strip(roll_summary)>>]

\* the normal message
normal_out(alias, cleaned, style, key) ==
    [paras |-> << Styled(alias, cleaned, style) >>, removed |-> <<>>, last_key |-> key]

\* key == last_key, with last_key not None
is_duplicate(key, last) == last # None /\ key = last

\* Variant: the AFK check where it used to be, after the visibility check
classify_afk_late(msg, last) ==
    LET raw     == Get(msg, "content", JStr(<<>>))
        cleaned == clean_html(raw)
        alias   == speaker_of(msg)
        m       == subheader_match(cleaned)
        vis     == should_omit_visibility(msg)
        key     == <<strip(alias), strip(cleaned)>>
        roll_summary == extract_roll_info(msg)
    IN  IF raw = JNull THEN drop_out(last)
        ELSE IF cleaned = <<>> THEN drop_out(last)
        ELSE IF is_yes("SUBHEAD_BOOKMARKS") /\ m.matched
            THEN subheader_out(m.group, last)
        ELSE IF vis.omit THEN visibility_out(vis.reason, alias, cleaned, last)
        ELSE IF is_yes("OMIT_AFK_MESSAGES") /\ afk_search(cleaned)
            THEN afk_out(alias, cleaned, last)
        ELSE IF is_duplicate(key, last) THEN duplicate_out(alias, cleaned, last)
        ELSE IF roll_summary # None THEN roll_out(alias, roll_summary)
        ELSE normal_out(alias, cleaned, Get(msg, "style", 0), key)

\* the body of "for msg in messages"
classify(msg, last) ==
    LET raw     == Get(msg, "content", JStr(<<>>))
        cleaned == clean_html(raw)
        alias   == speaker_of(msg)
        m       == subheader_match(cleaned)
        vis     == should_omit_visibility(msg)
        key     == <<strip(alias), strip(cleaned)>>
        roll_summary == extract_roll_info(msg)
    IN  IF raw = JNull THEN drop_out(last)
        ELSE IF cleaned = <<>> THEN drop_out(last)
        ELSE IF is_yes("OMIT_AFK_MESSAGES") /\ afk_search(cleaned)
            THEN afk_out(alias, cleaned, last)
        ELSE IF is_yes("SUBHEAD_BOOKMARKS") /\ m.matched
            THEN subheader_out(m.group, last)
        ELSE IF vis.omit THEN visibility_out(vis.reason, alias, cleaned, last)
        ELSE IF is_duplicate(key, last) THEN duplicate_out(alias, cleaned, last)
        ELSE IF roll_summary # None THEN roll_out(alias, roll_summary)
        ELSE normal_out(alias, cleaned, Get(msg, "style", 0), key)

\* Variant: last_key kept in a variable that outlives the session
session_locals_stale == [last_key |-> last_key, removed_list |-> <<>>]

\* the fresh locals of process_file: last_key = None, removed_list = []
session_locals == [last_key |-> None, removed_list |-> <<>>]

header_paragraphs(file) ==
    LET session_date == get_session_date(file.data)
    IN  << [kind |-> "header", text |-> title_of(file)],
           [kind |-> "date",
            text |-> IF session_date # None THEN session_date
                     ELSE <<"FALLBACK DATE!">>] >>

\* Variant: the record filed under a 0-based index
session_record_zero_based(index, session_title, removed) ==
    <<index - 1, session_title, removed>>

\* DELETED_DUPLICATES.append((session_index, title, removed_list))
session_record(index, session_title, removed) == <<index, session_title, removed>>

\* write_omitted_doc: the paragraphs written for the recorded sessions
RECURSIVE omitted_paragraphs(_, _)
omitted_paragraphs(records, dates) ==
    IF records = <<>> THEN <<>>
    ELSE LET rec      == Head(records)
             date_idx == rec[1] - 1
             sdate    == IF 0 <= date_idx /\ date_idx < Len(dates)
                         THEN dates[date_idx + 1] ELSE None
         IN  (IF rec[3] = <<>> THEN <<>>
              ELSE << [kind |-> "header", index |-> rec[1], text |-> rec[2]],
                      [kind |-> "date",
                       text |-> IF sdate # None THEN sdate ELSE <<"FALLBACK DATE!">>] >>
                   \o [i \in 1..Len(rec[3]) |-> [kind |-> "omitted", entry |-> rec[3][i]]])
             \o omitted_paragraphs(Tail(records), dates)

write_omitted_doc(records, dates) ==
    IF \A i \in 1..Len(records) : records[i][3] = <<>> THEN <<>>
    ELSE omitted_paragraphs(records, dates)

----------------------------------------------------------------------------
(* Actions *)

\* main's loop calls process_file for the next file: header, date line,
\* SESSION_DATES.append, and the locals are set up
StartSession(file, maxFiles) ==
    /\ pc = "main"
    /\ session_index < maxFiles
    /\ session_index' = session_index + 1
    /\ session_data' = file.data
    /\ title' = title_of(file)
    /\ doc' = doc \o header_paragraphs(file)
    /\ SESSION_DATES' = Append(SESSION_DATES, get_session_date(file.data))
    /\ messages' = <<>>
    /\ last_key' = session_locals.last_key
    /\ removed_list' = session_locals.removed_list
    /\ pc' = "loop"
    /\ UNCHANGED <<CONFIG, DELETED_DUPLICATES, omitted_doc>>

\* Variant: a duplicate replaces the block written for the earlier occurrence
ProcessMessage_backtrack(msg, maxMsgs) ==
    /\ pc = "loop"
    /\ Len(messages) < maxMsgs
    /\ LET out == classify(msg, last_key)
           dup == out.removed # <<>> /\ out.removed[1][1] = "DUPLICATE"
       IN  /\ doc' = IF dup
                     THEN Append(SubSeq(doc, 1, Len(doc) - 1),
                                 Styled(out.removed[1][2], out.removed[1][3],
                                        Get(msg, "style", 0)))
                     ELSE doc \o out.paras
           /\ removed_list' = removed_list \o out.removed
           /\ last_key' = out.last_key
    /\ messages' = Append(messages, msg)
    /\ UNCHANGED <<CONFIG, pc, session_index, session_data, title, DELETED_DUPLICATES,
                   SESSION_DATES, omitted_doc>>

\* one iteration of the message loop
ProcessMessage(msg, maxMsgs) ==
    /\ pc = "loop"
    /\ Len(messages) < maxMsgs
    /\ LET out == classify(msg, last_key)
       IN  /\ doc' = doc \o out.paras
           /\ removed_list' = removed_list \o out.removed
           /\ last_key' = out.last_key
    /\ messages' = Append(messages, msg)
    /\ UNCHANGED <<CONFIG, pc, session_index, session_data, title, DELETED_DUPLICATES,
                   SESSION_DATES, omitted_doc>>

\* the message list is exhausted: the session's record is appended
EndSession ==
    /\ pc = "loop"
    /\ DELETED_DUPLICATES' =
           Append(DELETED_DUPLICATES, session_record(session_index, title, removed_list))
    /\ pc' = "main"
    /\ UNCHANGED <<CONFIG, session_index, session_data, title, messages, last_key, removed_list,
                   doc, SESSION_DATES, omitted_doc>>

\* all files are processed: main calls write_omitted_doc
WriteOmitted ==
    /\ pc = "main"
    /\ session_index >= 1
    /\ omitted_doc' = write_omitted_doc(DELETED_DUPLICATES, SESSION_DATES)
    /\ pc' = "done"
    /\ UNCHANGED <<CONFIG, session_index, session_data, title, messages, last_key, removed_list,
                   doc, DELETED_DUPLICATES, SESSION_DATES>>

\* main after load_config, with DELETED_DUPLICATES and SESSION_DATES cleared
InitWith(configs) ==
    /\ CONFIG \in configs
    /\ pc = "main"
    /\ session_index = 0
    /\ session_data = EmptyDict
    /\ title = <<>>
    /\ messages = <<>>
    /\ last_key = None
    /\ removed_list = <<>>
    /\ doc = <<>>
    /\ DELETED_DUPLICATES = <<>>
    /\ SESSION_DATES = <<>>
    /\ omitted_doc = <<>>

----------------------------------------------------------------------------
(* Inputs *)

MaxSessions == 2     \* files per run (Spec)
MaxRunMsgs == 2      \* messages per session (Spec)
MaxDupMsgs == 4      \* messages per session (SpecDup)
MaxClassMsgs == 2    \* messages per session (SpecClass)
MaxVisMsgs == 1      \* messages per session (SpecVis)
MaxCfgMsgs == 1      \* messages per session (SpecCfg)
MaxDateSessions == 2 \* files per run (SpecDate)
MaxCleanLen == 3     \* tokens per message content (SpecClean)
MaxOrderMsgs == 3    \* messages per session (SpecOrder)

Alias(a) == JObj([alias |-> JStr(a)])
Whispered == [whisper |-> JList(<<"gm-user-id">>)]

HelloHtml == <<"<p>", "Hello", "</p>">>
HelloLoose == <<" ", "Hello", "\n">>
ByeText == <<"Bye">>
BlankHtml == <<"<p>", " ", "</p>">>
\* two roll payloads that differ in markup and render to the same summary
RollHtml ==
    <<"<div class='dice-roll'>", "<span class='dice-formula'>", "1d20", "</span>",
      "<span class='dice-total'>", "15", "</span>", "</div>">>
RollHtmlLoose ==
    <<"<div class='dice-roll'>", "<p>", "<span class='dice-formula'>", " ", "1d20",
      "</span>", "</p>", "\n", "<span class='dice-total'>", "<b>", "15", "</b>",
      "</span>", "</div>">>

AliceHello == [content |-> JStr(HelloHtml), speaker |-> Alias(<<"Alice">>)]
\* the same speaker and text once trimmed and normalized
AliceHelloLoose == [content |-> JStr(HelloLoose), speaker |-> Alias(<<"Alice", " ">>)]
BobBye == [content |-> JStr(ByeText), speaker |-> Alias(<<"Bob">>), style |-> 1]
AliceHelloWhisper == AliceHello @@ Whispered
AliceEmpty == [content |-> JStr(<<>>), speaker |-> Alias(<<"Alice">>)]
AliceNull == [content |-> JNull, speaker |-> Alias(<<"Alice">>)]
AliceRoll == [content |-> JStr(RollHtml), speaker |-> Alias(<<"Alice">>)]
AliceRollLoose == [content |-> JStr(RollHtmlLoose), speaker |-> Alias(<<"Alice">>),
                   flavor |-> JStr(<<"<b>", "</b>">>)]

AliceHelloBlind == AliceHello @@ [blind |-> JBool(TRUE)]
AliceHelloGm == AliceHello @@ [rollMode |-> JStr(<<"gmroll">>)]
AliceHelloSelf == AliceHello @@ [rollMode |-> JStr(<<"self">>)]
AliceHelloPublic == AliceHello @@ [rollMode |-> JStr(<<"public">>)]
AliceAfk == [content |-> JStr(<<"brb">>), speaker |-> Alias(<<"Alice">>)] @@ Whispered
AliceNoContent == [speaker |-> Alias(<<"Alice">>)]
AliceBlank == [content |-> JStr(BlankHtml), speaker |-> Alias(<<"Alice">>)]

\* the session of the duplicate-suppression scenarios
DupMessages == {AliceHello, AliceHelloLoose, BobBye, AliceHelloWhisper, AliceHelloBlind,
                AliceHelloGm, AliceHelloSelf, AliceHelloPublic, AliceAfk,
                AliceEmpty, AliceNull, AliceNoContent, AliceBlank, AliceRoll,
                AliceRollLoose}
DupConfigs ==
    {DefaultConfig,
     WithOption(WithOption(DefaultConfig, "OMIT_WHISPERS", <<"NO">>),
                "OMIT_PUBLIC_ROLLS", <<"YES">>)}

\* every kind of content under every kind of visibility
ClassContents ==
    {JNull, JStr(BlankHtml), JStr(HelloHtml), JStr(<<"Hello", " ", "BRB">>),
     JStr(<<"#", "#", "#", " ", "Scene">>), JStr(<<"#", "#", "#", " ", "brb">>),
     JStr(RollHtml)}
ClassSpeakers == {[speaker |-> Alias(<<"Alice">>)], EmptyDict}
ClassVisibility ==
    {EmptyDict,
     [whisper |-> JList(<<"gm-user-id">>), blind |-> JBool(TRUE),
      rollMode |-> JStr(<<"gmroll">>)],
     [rollMode |-> JStr(<<"selfroll">>)],
     [whisper |-> JList(<<>>), blind |-> JBool(FALSE), rollMode |-> JStr(<<"public">>)]}
ClassMessages ==
    {[content |-> c] @@ s @@ v : c \in ClassContents, s \in ClassSpeakers,
                                 v \in ClassVisibility}
    \cup {s @@ v : s \in ClassSpeakers, v \in ClassVisibility}
ClassConfigs ==
    {DefaultConfig} \cup
    {WithOption(DefaultConfig, k, IF k = "OMIT_PUBLIC_ROLLS" THEN <<"yes">> ELSE <<"NO">>) :
        k \in {"OMIT_AFK_MESSAGES", "SUBHEAD_BOOKMARKS", "OMIT_PUBLIC_ROLLS"}}

\* one plain text under every combination of the visibility attributes and toggles
VisWhisper == {EmptyDict, [whisper |-> JList(<<>>)], Whispered}
VisBlind == {EmptyDict, [blind |-> JBool(TRUE)]}
VisRollMode ==
    {EmptyDict, [rollMode |-> JNull]} \cup
    {[rollMode |-> JStr(m)] :
        m \in {<<"gmroll">>, <<" ", "GMRoll">>, <<"gm">>, <<"blind">>, <<"blindroll">>,
               <<"self">>, <<"Self">>, <<"public-roll">>, <<"roll">>}}
VisMessages == {AliceHello @@ w @@ b @@ r : w \in VisWhisper, b \in VisBlind, r \in VisRollMode}
VisKeys == <<"OMIT_WHISPERS", "OMIT_PRIVATE_GM_ROLLS", "OMIT_BLIND_GM_ROLLS",
             "OMIT_SELF_ROLLS", "OMIT_PUBLIC_ROLLS">>
VisConfigs ==
    {[k \in DOMAIN DefaultConfig |->
        IF \E i \in 1..5 : VisKeys[i] = k
        THEN (IF k \in on THEN <<"YES">> ELSE <<"NO">>)
        ELSE DefaultConfig[k]] : on \in SUBSET {VisKeys[i] : i \in 1..5}}

\* one message for every toggle, under cfg.txt files that set one toggle to a
\* value that reads as yes, as no, or as neither
AliceBrb == [content |-> JStr(<<"brb">>), speaker |-> Alias(<<"Alice">>)]
AliceScene == [content |-> JStr(<<"#", "#", "#", " ", "Scene">>),
               speaker |-> Alias(<<"Alice">>)]
CfgMessages == {AliceHello, AliceBrb, AliceScene, AliceHelloWhisper, AliceHelloBlind,
                AliceHelloGm, AliceHelloSelf, AliceHelloPublic}
CfgValues == {<<"yes">>, <<"no">>, <<"maybe">>, <<"true">>, <<"1">>, <<>>}
CfgConfigs == {WithOption(DefaultConfig, k, v) : k \in ToggleKeys, v \in CfgValues}

\* every content of up to MaxCleanLen tokens of markup, escaped markup,
\* whitespace and text
CleanTokens == {"<b>", "</b>", "&lt;b&gt;", "&lt;/b&gt;", "&amp;", " ", "\n", "Hi"}
CleanContents == UNION {[1..n -> CleanTokens] : n \in 0..MaxCleanLen}
CleanMessages == {[content |-> JStr(c), speaker |-> Alias(<<"Alice">>)] : c \in CleanContents}

\* a session that mixes every outcome: written, duplicate, omitted, dropped,
\* subheader, roll
OrderMessages == {AliceHello, AliceHelloLoose, BobBye, AliceHelloWhisper, AliceBrb,
                  AliceEmpty, AliceScene, AliceRoll}

\* the files of a run
FileOne ==
    [name |-> <<"fvtt-1.json">>,
     data |-> [title |-> JStr(<<"Session One">>),
               created |-> JNum(<<1, 700, 000, 000, 000>>)]]
FileTwo ==
    [name |-> <<"fvtt-2.json">>,
     data |-> [data |-> JObj([title |-> JStr(<<"Session Two">>),
                              timestamp |-> JJunk,
                              _stats |-> JObj([createdTime |-> JDigits(<<1, 700, 086, 400>>)])])]]
FileBare == [name |-> <<"fvtt-3.json">>, data |-> [title |-> JNull]]
RunFiles == {FileOne, FileTwo, FileBare}

\* session files that carry, or lack, a value under six of the probed fields:
\* epochs in milliseconds and in seconds, as integers and as digit strings,
\* at and around 10^12, ISO strings, and values that do not parse
EpochMs == JNum(<<1, 700, 000, 000, 000>>)
EpochSec == JDigits(<<1, 700, 000, 000>>)
Epoch1e12 == JDigits(<<1, 000, 000, 000, 000>>)
Epoch1e12Plus1 == JDigits(<<1, 000, 000, 000, 001>>)
EpochBelow1e12 == JNum(<<999, 999, 999, 999>>)
EpochZero == JNum(<<0>>)
DataCreated == {EmptyDict, [created |-> JJunk], [created |-> EpochMs]}
TopCreated == {EmptyDict, [created |-> JNull], [created |-> Epoch1e12],
               [created |-> JIso(2024, 1, 5, TRUE)]}
DataTimestamp == {EmptyDict, [timestamp |-> Epoch1e12Plus1],
                  [timestamp |-> EpochBelow1e12]}
TopTimestamp == {EmptyDict, [timestamp |-> EpochSec]}
StatsCreated == {EmptyDict, [createdTime |-> JJunk], [createdTime |-> EpochZero]}
StatsModified == {EmptyDict, [modifiedTime |-> JIso(2022, 12, 31, FALSE)]}
DateFiles ==
    {[name |-> <<"fvtt-4.json">>,
      data |-> [data |-> JObj(dc @@ dt @@
                              (IF sc @@ sm = EmptyDict THEN EmptyDict
                               ELSE [_stats |-> JObj(sc @@ sm)]))]
               @@ tc @@ tt] :
        dc \in DataCreated, tc \in TopCreated, dt \in DataTimestamp,
        tt \in TopTimestamp, sc \in StatsCreated, sm \in StatsModified}
    \cup {[name |-> <<"fvtt-5.json">>, data |-> [data |-> JNull] @@ tc @@ tt] :
             tc \in TopCreated, tt \in TopTimestamp}
    \cup {[name |-> <<"fvtt-6.json">>,
           data |-> [data |-> JObj([_stats |-> JNull] @@ dt)]] : dt \in DataTimestamp}
RunMessages == {AliceHello, AliceHelloWhisper}

----------------------------------------------------------------------------
(* Specifications *)

\* a whole run: several sessions, the aggregator, the omission report
Init == InitWith({DefaultConfig})
Next ==
    \/ \E file \in RunFiles : StartSession(file, MaxSessions)
    \/ \E msg \in RunMessages : ProcessMessage(msg, MaxRunMsgs)
    \/ EndSession
    \/ WriteOmitted
Spec == Init /\ [][Next]_vars

\* the message loop of one session over the duplicate-suppression messages
InitDup == InitWith(DupConfigs)
NextDup ==
    \/ StartSession(FileOne, 1)
    \/ \E msg \in DupMessages : ProcessMessage(msg, MaxDupMsgs)
SpecDup == InitDup /\ [][NextDup]_vars

\* the message loop of one short session over every kind of message
InitClass == InitWith(ClassConfigs)
NextClass ==
    \/ StartSession(FileOne, 1)
    \/ \E msg \in ClassMessages : ProcessMessage(msg, MaxClassMsgs)
SpecClass == InitClass /\ [][NextClass]_vars

\* the message loop over one plain message under every visibility attribute and toggle
InitVis == InitWith(VisConfigs)
NextVis ==
    \/ StartSession(FileOne, 1)
    \/ \E msg \in VisMessages : ProcessMessage(msg, MaxVisMsgs)
SpecVis == InitVis /\ [][NextVis]_vars

\* the message loop over one message per toggle under every cfg.txt value
InitCfg == InitWith(CfgConfigs)
NextCfg ==
    \/ StartSession(FileOne, 1)
    \/ \E msg \in CfgMessages : ProcessMessage(msg, MaxCfgMsgs)
SpecCfg == InitCfg /\ [][NextCfg]_vars

\* the header and date line of a run's sessions over every session file
InitDate == InitWith({DefaultConfig})
NextDate ==
    \/ \E file \in DateFiles : StartSession(file, MaxDateSessions)
    \/ EndSession
SpecDate == InitDate /\ [][NextDate]_vars

\* the message loop over one message of every content
InitClean == InitWith({DefaultConfig})
NextClean ==
    \/ StartSession(FileOne, 1)
    \/ \E msg \in CleanMessages : ProcessMessage(msg, 1)
SpecClean == InitClean /\ [][NextClean]_vars

\* the message loop of one session over messages of every outcome
InitOrder == InitWith({DefaultConfig})
NextOrder ==
    \/ StartSession(FileOne, 1)
    \/ \E msg \in OrderMessages : ProcessMessage(msg, MaxOrderMsgs)
SpecOrder == InitOrder /\ [][NextOrder]_vars

----------------------------------------------------------------------------
(* Vocabulary of the properties *)

\* a step of the message loop, and the message it consumed
IsStep == pc = "loop" /\ pc' = "loop" /\ Len(messages') = Len(messages) + 1
NewMsg == messages'[Len(messages')]

\* the session's paragraphs after its header and date line
RECURSIVE last_header(_, _)
last_header(d, i) == IF i = 0 \/ d[i].kind = "header" THEN i ELSE last_header(d, i - 1)
SessionBlocks == SubSeq(doc, last_header(doc, Len(doc)) + 2, Len(doc))

IsPrefix(a, b) == Len(a) <= Len(b) /\ SubSeq(b, 1, Len(a)) = a

\* what a message is expected to be filed under
NameOf(msg) == IF "speaker" \in DOMAIN msg THEN msg.speaker.o.alias.s ELSE <<"Handler">>
HasContent(msg, contents) == "content" \in DOMAIN msg /\ msg.content \in contents
Enabled(key) == CONFIG[key] \in {<<"YES">>, <<"yes">>}

EmptyContent(msg) ==
    \/ "content" \notin DOMAIN msg
    \/ msg.content = JNull
    \/ clean_html(msg.content) = <<>>

AfkContents == {JStr(<<"Hello", " ", "BRB">>), JStr(<<"#", "#", "#", " ", "brb">>)}

----------------------------------------------------------------------------
(* C1: every message of a session has exactly one outcome: it is dropped    *)
(* (nothing is added to the document or to the omitted list), or it adds    *)
(* exactly one block, or it adds exactly one omitted entry; a message with  *)
(* empty content is the only kind that is dropped, and it adds nothing.     *)
C1_ExactlyOneOutcome ==
    [][IsStep =>
        LET blocks  == Len(doc') - Len(doc)
            omitted == Len(removed_list') - Len(removed_list)
        IN  /\ IsPrefix(doc, doc') /\ IsPrefix(removed_list, removed_list')
            /\ blocks \in {0, 1} /\ omitted \in {0, 1}
            /\ blocks + omitted = (IF EmptyContent(NewMsg) THEN 0 ELSE 1)
            /\ blocks = 1 => doc'[Len(doc')].kind \in {"subheader", "styled"}
      ]_vars

\* a session whose first message was dropped and whose second was omitted
C1_Witness ==
    /\ pc = "loop" /\ Len(messages) = 2
    /\ EmptyContent(messages[1]) /\ ~EmptyContent(messages[2])
    /\ SessionBlocks = <<>> /\ Len(removed_list) = 1

(* C2: with OMIT_AFK_MESSAGES enabled, a message whose text matches the AFK *)
(* pattern is omitted with reason AFK whatever its whisper, blind and       *)
(* rollMode attributes, its subheader shape or the current last_key: no     *)
(* block is written and last_key stays as it was.                           *)
C2_AfkFirst ==
    [][(IsStep /\ Enabled("OMIT_AFK_MESSAGES") /\ HasContent(NewMsg, AfkContents)) =>
        /\ removed_list' = Append(removed_list, <<"AFK", NameOf(NewMsg), NewMsg.content.s>>)
        /\ doc' = doc
        /\ last_key' = last_key
      ]_vars

\* a whispered, blind, gmroll message shaped like a subheader and reading
\* "brb" was filed under AFK
C2_Witness ==
    /\ pc = "loop" /\ Len(messages) = 1 /\ Enabled("OMIT_AFK_MESSAGES")
    /\ HasContent(messages[1], {JStr(<<"#", "#", "#", " ", "brb">>)})
    /\ "whisper" \in DOMAIN messages[1] /\ messages[1].whisper # JList(<<>>)
    /\ "blind" \in DOMAIN messages[1] /\ messages[1].blind = JBool(TRUE)
    /\ removed_list = << <<"AFK", NameOf(messages[1]), <<"#", "#", "#", " ", "brb">>>> >>
    /\ SessionBlocks = <<>>

----------------------------------------------------------------------------
(* Vocabulary of the duplicate-suppression properties *)

\* the messages of DupMessages that reach the duplicate check and are no rolls
PlainVisible(msg) ==
    \/ msg \in {AliceHello, AliceHelloLoose, BobBye}
    \/ msg = AliceHelloWhisper /\ ~Enabled("OMIT_WHISPERS")
    \/ msg = AliceHelloPublic /\ ~Enabled("OMIT_PUBLIC_ROLLS")
SaidBy(msg) == IF msg = BobBye THEN <<"Bob">> ELSE <<"Alice">>
Said(msg) == IF msg = BobBye THEN <<"Bye">> ELSE <<"Hello">>
KeyOf(msg) == <<SaidBy(msg), Said(msg)>>
BlockOf(msg) == Styled(NameOf(msg), Said(msg), IF msg = BobBye THEN 1 ELSE 0)
OmittedAs(reason, msg) == <<reason, NameOf(msg), Said(msg)>>
Hellos == {AliceHello, AliceHelloLoose}
RollSummary == <<"Alice", " ", "rolls", " ", "1d20", " ", "->", " ", "15">>
Rolls == {AliceRoll, AliceRollLoose}

(* C3 as stated: duplicate suppression looks at the preceding accepted      *)
(* message only, and in every run of consecutive dialogue messages that     *)
(* pass the drop, AFK, subheader and visibility rules and share speaker and *)
(* text, the first is written and the others are omitted as DUPLICATE with  *)
(* last_key unchanged.                                                      *)
C3_StartsRun ==
    \/ messages = <<>>
    \/ ~PlainVisible(messages[Len(messages)])
    \/ KeyOf(messages[Len(messages)]) # KeyOf(NewMsg)
C3_RunStep ==
    (IsStep /\ PlainVisible(NewMsg)) =>
        IF C3_StartsRun
        THEN /\ doc' = Append(doc, BlockOf(NewMsg))
             /\ removed_list' = removed_list
        ELSE /\ removed_list' = Append(removed_list, OmittedAs("DUPLICATE", NewMsg))
             /\ last_key' = last_key
             /\ doc' = doc
C3_FirstOfRunWritten == [][C3_RunStep]_vars

(* C3, amended: a dialogue message that reaches the duplicate check is      *)
(* compared with last_key only: when its trimmed speaker and normalized     *)
(* text equal it, the message is omitted as DUPLICATE and last_key stays;   *)
(* otherwise it is written and becomes last_key. So the first of a run is   *)
(* written unless last_key already holds its speaker and text, the rest of  *)
(* the run is omitted, and [A, A, B, A] writes [A, B, A] with exactly one   *)
(* DUPLICATE.                                                               *)
C3_Step ==
    (IsStep /\ PlainVisible(NewMsg)) =>
        IF last_key = KeyOf(NewMsg)
        THEN /\ removed_list' = Append(removed_list, OmittedAs("DUPLICATE", NewMsg))
             /\ last_key' = last_key
             /\ doc' = doc
        ELSE /\ doc' = Append(doc, BlockOf(NewMsg))
             /\ last_key' = KeyOf(NewMsg)
             /\ removed_list' = removed_list
C3_Scenarios ==
    /\ \A a1, a2, a3 \in Hellos :
          messages = <<a1, a2, BobBye, a3>> =>
              /\ SessionBlocks = <<BlockOf(a1), BlockOf(BobBye), BlockOf(a3)>>
              /\ removed_list = <<OmittedAs("DUPLICATE", a2)>>
    /\ (Len(messages) >= 1 /\ \A i \in 1..Len(messages) : messages[i] \in Hellos) =>
          /\ SessionBlocks = <<BlockOf(messages[1])>>
          /\ removed_list =
                [i \in 1..(Len(messages) - 1) |-> OmittedAs("DUPLICATE", messages[i + 1])]
C3_ConsecutiveDuplicates == []C3_Scenarios /\ [][C3_Step]_vars

\* [A, A, B, A] has been processed: three blocks, one DUPLICATE
C3_Witness ==
    /\ messages = <<AliceHello, AliceHelloLoose, BobBye, AliceHello>>
    /\ Len(SessionBlocks) = 3
    /\ removed_list = <<OmittedAs("DUPLICATE", AliceHelloLoose)>>

(* C4: a message that is omitted, for any reason, leaves last_key exactly   *)
(* as it was. So [A, whispered A, A] with whisper omission enabled writes   *)
(* one block and omits the second message as WHISPER and the third as       *)
(* DUPLICATE.                                                               *)
C4_Step ==
    (IsStep /\ Len(removed_list') = Len(removed_list) + 1) =>
        /\ last_key' = last_key
        /\ removed_list'[Len(removed_list')][1] \in
              {"AFK", "WHISPER", "BLIND", "PRIVATE_GM_ROLL", "SELF_ROLL",
               "PUBLIC_ROLL", "DUPLICATE"}
C4_Scenario ==
    (Enabled("OMIT_WHISPERS") /\ messages = <<AliceHello, AliceHelloWhisper, AliceHello>>) =>
        /\ SessionBlocks = <<BlockOf(AliceHello)>>
        /\ removed_list = <<OmittedAs("WHISPER", AliceHelloWhisper),
                            OmittedAs("DUPLICATE", AliceHello)>>
        /\ last_key = KeyOf(AliceHello)
C4_OmittedKeepsKey == []C4_Scenario /\ [][C4_Step]_vars

\* [A, whispered A, A] has been processed with whisper omission enabled
C4_Witness ==
    /\ Enabled("OMIT_WHISPERS")
    /\ messages = <<AliceHello, AliceHelloWhisper, AliceHello>>
    /\ Len(removed_list) = 2 /\ removed_list[2][1] = "DUPLICATE"
    /\ last_key # None

(* C5: a message whose content is absent, null or normalizes to the empty   *)
(* string is dropped and sets last_key to None, and a message processed     *)
(* while last_key is None is never omitted as DUPLICATE. So Hello, Hello,   *)
(* empty, Hello from one speaker under the default configuration writes the *)
(* first and the fourth and omits the second as DUPLICATE.                  *)
C5_Step ==
    /\ (IsStep /\ NewMsg \in {AliceEmpty, AliceNull, AliceNoContent, AliceBlank}) =>
          last_key' = None /\ doc' = doc /\ removed_list' = removed_list
    /\ (IsStep /\ last_key = None /\ Len(removed_list') > Len(removed_list)) =>
          removed_list'[Len(removed_list')][1] # "DUPLICATE"
C5_Scenario ==
    (CONFIG = DefaultConfig /\ messages = <<AliceHello, AliceHello, AliceEmpty, AliceHello>>) =>
        /\ SessionBlocks = <<BlockOf(AliceHello), BlockOf(AliceHello)>>
        /\ removed_list = <<OmittedAs("DUPLICATE", AliceHello)>>
C5_DropResetsKey == []C5_Scenario /\ [][C5_Step]_vars

\* Hello, Hello, empty, Hello has been processed under the default configuration
C5_Witness ==
    /\ CONFIG = DefaultConfig
    /\ messages = <<AliceHello, AliceHello, AliceEmpty, AliceHello>>
    /\ Len(SessionBlocks) = 2 /\ Len(removed_list) = 1

(* C6: once a roll is accepted last_key is (speaker, rendered summary), and *)
(* of two consecutive visible rolls of one speaker that render to the same  *)
(* summary only the first is written, the second being omitted as           *)
(* DUPLICATE.                                                               *)
C6_RollDuplicateSuppressed ==
    /\ (Len(messages) = 1 /\ messages[1] \in Rolls) =>
          last_key = <<<<"Alice">>, RollSummary>>
    /\ (Len(messages) = 2 /\ messages[1] \in Rolls /\ messages[2] \in Rolls) =>
          /\ SessionBlocks = <<Styled(<<"Alice">>, RollSummary, 0)>>
          /\ Len(removed_list) = 1
          /\ removed_list[1][1] = "DUPLICATE"

----------------------------------------------------------------------------
(* Vocabulary of the visibility property *)

RawMode(msg) ==
    IF "rollMode" \in DOMAIN msg /\ msg.rollMode # JNull THEN msg.rollMode.s ELSE <<>>

\* the six checks in their order: whether the message matches, the toggle, the reason
VisChecks(msg) ==
    << <<"whisper" \in DOMAIN msg /\ msg.whisper # JList(<<>>),
         "OMIT_WHISPERS", "WHISPER">>,
       <<"blind" \in DOMAIN msg /\ msg.blind = JBool(TRUE),
         "OMIT_BLIND_GM_ROLLS", "BLIND">>,
       <<RawMode(msg) \in {<<"gmroll">>, <<" ", "GMRoll">>, <<"gm">>},
         "OMIT_PRIVATE_GM_ROLLS", "PRIVATE_GM_ROLL">>,
       <<RawMode(msg) \in {<<"blind">>, <<"blindroll">>},
         "OMIT_BLIND_GM_ROLLS", "BLIND">>,
       <<RawMode(msg) \in {<<"self">>, <<"Self">>},
         "OMIT_SELF_ROLLS", "SELF_ROLL">>,
       <<RawMode(msg) \in {<<"public-roll">>},
         "OMIT_PUBLIC_ROLLS", "PUBLIC_ROLL">> >>
Fires(msg, i) == VisChecks(msg)[i][1] /\ Enabled(VisChecks(msg)[i][2])

(* C7: a message that reaches the visibility check is omitted with the      *)
(* reason of the first of the six checks (whisper, blind flag, GM-private   *)
(* mode, blind mode, self mode, public mode) that matches it and whose      *)
(* toggle is enabled; a matching check whose toggle is disabled is passed   *)
(* over; when none fires the message is written. The reason is one of       *)
(* WHISPER, BLIND, PRIVATE_GM_ROLL, SELF_ROLL, PUBLIC_ROLL.                 *)
C7_FirstEnabledCheck ==
    (pc = "loop" /\ Len(messages) = 1) =>
        LET msg == messages[1]
        IN  IF \E i \in 1..6 : Fires(msg, i)
            THEN LET first == CHOOSE i \in 1..6 :
                                 Fires(msg, i) /\ \A j \in 1..(i - 1) : ~Fires(msg, j)
                 IN  /\ removed_list = <<OmittedAs(VisChecks(msg)[first][3], msg)>>
                     /\ SessionBlocks = <<>>
                     /\ removed_list[1][1] \in {"WHISPER", "BLIND", "PRIVATE_GM_ROLL",
                                               "SELF_ROLL", "PUBLIC_ROLL"}
            ELSE /\ removed_list = <<>>
                 /\ SessionBlocks = <<BlockOf(msg)>>

\* a whispered, blind message with whisper omission disabled was filed under BLIND
C7_Witness ==
    /\ pc = "loop" /\ Len(messages) = 1
    /\ VisChecks(messages[1])[1][1] /\ ~Enabled("OMIT_WHISPERS")
    /\ VisChecks(messages[1])[2][1] /\ Enabled("OMIT_BLIND_GM_ROLLS")
    /\ removed_list = <<OmittedAs("BLIND", messages[1])>>

----------------------------------------------------------------------------
(* C8: with SUBHEAD_BOOKMARKS enabled, a message that is not filed under    *)
(* AFK and whose text is "###", whitespace and a title writes a subheader   *)
(* block with that title and leaves last_key None, whatever its whisper,    *)
(* blind and rollMode attributes and whatever last_key was; and a message   *)
(* processed while last_key is None is never omitted as DUPLICATE.          *)
C8_Step ==
    /\ (/\ IsStep /\ Enabled("SUBHEAD_BOOKMARKS")
        /\ \/ HasContent(NewMsg, {JStr(<<"#", "#", "#", " ", "Scene">>)})
           \/ /\ HasContent(NewMsg, {JStr(<<"#", "#", "#", " ", "brb">>)})
              /\ ~Enabled("OMIT_AFK_MESSAGES"))
       => /\ doc' = Append(doc, [kind |-> "subheader",
                                 text |-> <<NewMsg.content.s[5]>>])
          /\ removed_list' = removed_list
          /\ last_key' = None
    /\ (IsStep /\ last_key = None /\ Len(removed_list') > Len(removed_list))
       => removed_list'[Len(removed_list')][1] # "DUPLICATE"
C8_SubheaderAlways == [][C8_Step]_vars

\* two identical whispered subheaders in a row were both written
C8_Witness ==
    /\ pc = "loop" /\ Len(messages) = 2 /\ messages[1] = messages[2]
    /\ HasContent(messages[1], {JStr(<<"#", "#", "#", " ", "Scene">>)})
    /\ "whisper" \in DOMAIN messages[1] /\ messages[1].whisper # JList(<<>>)
    /\ SessionBlocks = << [kind |-> "subheader", text |-> <<"Scene">>],
                          [kind |-> "subheader", text |-> <<"Scene">>] >>
    /\ removed_list = <<>> /\ last_key = None

----------------------------------------------------------------------------
(* Vocabulary of the run properties *)

Dates == SelectSeq(doc, LAMBDA p : p.kind = "date")
Headers == SelectSeq(doc, LAMBDA p : p.kind = "header")
DateLine(d) == IF d = None THEN <<"FALLBACK DATE!">> ELSE d

(* C9: last_key is None when the first message of every session is          *)
(* classified, so the first message of a session that reaches the duplicate *)
(* check is written, never omitted as DUPLICATE, even when the previous     *)
(* session ended on the same speaker and text.                              *)
C9_KeyPerSession ==
    /\ (pc = "loop" /\ messages = <<>>) => last_key = None
    /\ (pc = "loop" /\ \E i \in 1..Len(messages) : messages[i] = AliceHello) =>
          /\ SessionBlocks # <<>>
          /\ SessionBlocks[1] = BlockOf(AliceHello)

\* the second session opens with the message the first session ended on
C9_Witness ==
    /\ pc = "loop" /\ session_index = 2 /\ messages = <<AliceHello>>
    /\ Len(doc) = 6
    /\ doc[3] = BlockOf(AliceHello) /\ doc[6] = BlockOf(AliceHello)
    /\ DELETED_DUPLICATES[1][3] = <<>>

(* C10: the aggregator holds one record per session in input order and only *)
(* grows: after k sessions DELETED_DUPLICATES and SESSION_DATES have k      *)
(* entries each, the i-th record carries index i and the title of session   *)
(* i, the i-th date is the date of session i (also where the omission       *)
(* report looks it up), and no step changes or removes an entry already     *)
(* there.                                                                   *)
C10_State ==
    /\ Len(SESSION_DATES) = session_index
    /\ Len(DELETED_DUPLICATES) = (IF pc = "loop" THEN session_index - 1 ELSE session_index)
    /\ Len(Dates) = session_index /\ Len(Headers) = session_index
    /\ \A i \in 1..Len(SESSION_DATES) : Dates[i].text = DateLine(SESSION_DATES[i])
    /\ \A i \in 1..Len(DELETED_DUPLICATES) :
          /\ DELETED_DUPLICATES[i][1] = i
          /\ DELETED_DUPLICATES[i][2] = Headers[i].text
    /\ pc # "loop" /\ session_index >= 1 =>
          DELETED_DUPLICATES[session_index][3] = removed_list
    /\ \A j \in 1..Len(omitted_doc) :
          omitted_doc[j].kind = "header" =>
              /\ omitted_doc[j].text = Headers[omitted_doc[j].index].text
              /\ omitted_doc[j + 1] =
                    [kind |-> "date",
                     text |-> DateLine(SESSION_DATES[omitted_doc[j].index])]
              /\ DELETED_DUPLICATES[omitted_doc[j].index][3] # <<>>
C10_Step ==
    /\ IsPrefix(DELETED_DUPLICATES, DELETED_DUPLICATES')
    /\ IsPrefix(SESSION_DATES, SESSION_DATES')
    /\ Len(DELETED_DUPLICATES') <= Len(DELETED_DUPLICATES) + 1
    /\ Len(SESSION_DATES') <= Len(SESSION_DATES) + 1
C10_AppendOnly == []C10_State /\ [][C10_Step]_vars

\* two sessions with different dates are recorded, the first with omissions
C10_Witness ==
    /\ pc = "main" /\ session_index = 2
    /\ Len(DELETED_DUPLICATES) = 2 /\ Len(SESSION_DATES) = 2
    /\ DELETED_DUPLICATES[1][3] # <<>>
    /\ SESSION_DATES[1] # SESSION_DATES[2]

----------------------------------------------------------------------------
(* Vocabulary of the last_key frame properties *)

\* how a step of the loop disposed of its message without accepting it
C11_Dropped == EmptyContent(NewMsg)
C11_Subheader == Len(doc') = Len(doc) + 1 /\ doc'[Len(doc')].kind = "subheader"
C11_Omitted == Len(removed_list') = Len(removed_list) + 1

(* C11 as stated: a message that is dropped, omitted or recognized as a     *)
(* subheader does not update last_key: after it last_key holds the value it *)
(* held before.                                                             *)
C11_SlotUntouched ==
    [][(IsStep /\ (C11_Dropped \/ C11_Omitted \/ C11_Subheader)) =>
          last_key' = last_key]_vars

(* C11, amended: an omitted message leaves last_key as it was, while a      *)
(* dropped message and a subheader both set it to None, whatever it held    *)
(* before; none of the three ever stores a speaker and text in it.          *)
C11_SlotAfterUnaccepted ==
    [][IsStep =>
          /\ C11_Omitted => last_key' = last_key
          /\ (C11_Dropped \/ C11_Subheader) => last_key' = None
      ]_vars

\* a written message set last_key and the dropped message after it cleared it
C11_Witness ==
    /\ pc = "loop" /\ Len(messages) = 2
    /\ HasContent(messages[1], {JStr(HelloHtml)}) /\ Len(SessionBlocks) = 1
    /\ HasContent(messages[2], {JNull, JStr(BlankHtml)})
    /\ removed_list = <<>> /\ last_key = None

----------------------------------------------------------------------------
(* Vocabulary of the configuration property *)

\* the values that read as yes or as no
YesNo == {<<"YES">>, <<"yes">>, <<"Yes">>, <<"NO">>, <<"no">>, <<"No">>}
Unparseable(key) == CONFIG[key] \notin YesNo

\* what the documented defaults make of each message: the reason it is
\* omitted for, or "" when it is written
DefaultReason(msg) ==
    CASE msg = AliceBrb          -> "AFK"
      [] msg = AliceHelloWhisper -> "WHISPER"
      [] msg = AliceHelloBlind   -> "BLIND"
      [] msg = AliceHelloGm      -> "PRIVATE_GM_ROLL"
      [] msg = AliceHelloSelf    -> "SELF_ROLL"
      [] OTHER                   -> ""
DefaultOutcome(msg) ==
    IF msg = AliceScene
    THEN [blocks |-> << [kind |-> "subheader", text |-> <<"Scene">>] >>, removed |-> <<>>]
    ELSE IF DefaultReason(msg) # ""
    THEN [blocks  |-> <<>>,
          removed |-> << <<DefaultReason(msg), <<"Alice">>, clean_html(msg.content)>> >>]
    ELSE [blocks |-> <<BlockOf(msg)>>, removed |-> <<>>]

(* C12: a toggle configured with a value that is neither yes nor no is      *)
(* treated as its documented default (enabled, except OMIT_PUBLIC_ROLLS,    *)
(* which is disabled): every message is then classified as the default      *)
(* configuration classifies it.                                             *)
C12_UnparseableIsDefault ==
    (pc = "loop" /\ Len(messages) = 1 /\ \E k \in ToggleKeys : Unparseable(k)) =>
        /\ SessionBlocks = DefaultOutcome(messages[1]).blocks
        /\ removed_list = DefaultOutcome(messages[1]).removed

----------------------------------------------------------------------------
(* Vocabulary of the date properties *)

\* the twelve probes in their priority order: the block and the field
ProbeOrder ==
    << <<"data", "created">>,      <<"top", "created">>,
       <<"data", "createdTime">>,  <<"top", "createdTime">>,
       <<"data", "modified">>,     <<"top", "modified">>,
       <<"data", "modifiedTime">>, <<"top", "modifiedTime">>,
       <<"data", "timestamp">>,    <<"top", "timestamp">>,
       <<"stats", "createdTime">>, <<"stats", "modifiedTime">> >>

DataBlock(d) == IF "data" \in DOMAIN d /\ d.data.t = "obj" THEN d.data.o ELSE EmptyDict
StatsBlock(d) ==
    IF "_stats" \in DOMAIN DataBlock(d) /\ DataBlock(d)._stats.t = "obj"
    THEN DataBlock(d)._stats.o ELSE EmptyDict
BlockAt(d, where) ==
    CASE where = "top"   -> d
      [] where = "data"  -> DataBlock(d)
      [] where = "stats" -> StatsBlock(d)

\* the value found by the i-th probe, JNull when the field is not there
Probed(d, i) ==
    LET b == BlockAt(d, ProbeOrder[i][1])
    IN  IF ProbeOrder[i][2] \in DOMAIN b THEN b[ProbeOrder[i][2]] ELSE JNull

\* the calendar date (UTC) each value of the session files stands for, None
\* for one that is no valid timestamp
DateOf(v) ==
    CASE v = EpochMs                     -> <<"November", 14, 2023>>
      [] v = EpochSec                    -> <<"November", 14, 2023>>
      [] v = JDigits(<<1, 700, 086, 400>>) -> <<"November", 15, 2023>>
      [] v = Epoch1e12Plus1              -> <<"September", 9, 2001>>
      [] v = EpochZero                   -> <<"January", 1, 1970>>
      [] v = JIso(2024, 1, 5, TRUE)      -> <<"January", 5, 2024>>
      [] v = JIso(2022, 12, 31, FALSE)   -> <<"December", 31, 2022>>
      [] OTHER                           -> None

Parsing(d) == {i \in 1..12 : DateOf(Probed(d, i)) # None}
FirstParsing(d) == CHOOSE i \in Parsing(d) : \A j \in Parsing(d) : i <= j
InSession == pc = "loop" /\ session_index >= 1

(* C13: the session date is the date of the first of the twelve probes, in  *)
(* priority order (each of created, createdTime, modified, modifiedTime,    *)
(* timestamp in the data block and then at the top level, then _stats       *)
(* createdTime and modifiedTime), whose value is a valid timestamp; probes  *)
(* that are missing or do not parse are passed over; when none parses the   *)
(* date is None and the date line reads "FALLBACK DATE!".                   *)
C13_FirstParsingCandidate ==
    InSession =>
        IF Parsing(session_data) # {}
        THEN LET d == DateOf(Probed(session_data, FirstParsing(session_data)))
             IN  /\ SESSION_DATES[session_index] = d
                 /\ Dates[session_index].text = d
        ELSE /\ SESSION_DATES[session_index] = None
             /\ Dates[session_index].text = <<"FALLBACK DATE!">>

\* three probes that do not parse were passed over and the fourth gave the
\* date, although later probes parse as well
C13_Witness ==
    /\ InSession
    /\ Probed(session_data, 1) = JJunk /\ Probed(session_data, 2) = Epoch1e12
    /\ Probed(session_data, 9) = EpochBelow1e12
    /\ 12 \in Parsing(session_data) /\ FirstParsing(session_data) = 10
    /\ SESSION_DATES[session_index] = <<"November", 14, 2023>>

\* the probes that found a value
Found(d) == {Probed(d, i) : i \in 1..12} \ {JNull}

(* C14: an integer or all-digit string epoch is taken as milliseconds when  *)
(* it exceeds 10^12 and as seconds otherwise: 1700000000000 and 1700000000  *)
(* stand for the same second and both give November 14, 2023; 10^12 + 1 is  *)
(* milliseconds (September 9, 2001), while 10^12 and 10^12 - 1 are seconds, *)
(* which lie past the last year a date can hold and give no date.           *)
C14_EpochUnits ==
    /\ epoch_seconds(EpochMs.limbs) = epoch_seconds(EpochSec.limbs)
    /\ InSession =>
          LET only(v) == Found(session_data) = {v}
              date    == SESSION_DATES[session_index]
          IN  /\ only(EpochMs) => date = <<"November", 14, 2023>>
              /\ only(EpochSec) => date = <<"November", 14, 2023>>
              /\ only(Epoch1e12Plus1) => date = <<"September", 9, 2001>>
              /\ only(Epoch1e12) => date = None
              /\ only(EpochBelow1e12) => date = None
              /\ only(EpochZero) => date = <<"January", 1, 1970>>

\* one session dated by 1700000000000 alone, the next by "1700000000" alone,
\* and both date lines read November 14, 2023
C14_Witness ==
    /\ InSession /\ session_index = 2
    /\ Found(session_data) = {EpochSec}
    /\ SESSION_DATES = << <<"November", 14, 2023>>, <<"November", 14, 2023>> >>
    /\ Dates[1].text = Dates[2].text

----------------------------------------------------------------------------
(* C15: clean_html is idempotent: the text it made of a message's content,  *)
(* markup, escaped markup entities and whitespace runs included, is left as *)
(* it is when clean_html is applied to it again.                            *)
C15_CleanIdempotent ==
    (pc = "loop" /\ Len(messages) = 1) =>
        LET cleaned == clean_html(messages[1].content)
        IN  /\ clean_html(JStr(cleaned)) = cleaned
            /\ \A i \in 1..Len(SessionBlocks) :
                  clean_html(JStr(SessionBlocks[i].text)) = SessionBlocks[i].text

----------------------------------------------------------------------------
(* Vocabulary of the ordering property *)

\* whether a block, or an omitted entry, is the one made of a message
BlockFrom(p, msg) ==
    \/ /\ p.kind = "styled" /\ p.speaker = NameOf(msg)
       /\ p.text = (IF msg \in Rolls THEN RollSummary ELSE clean_html(msg.content))
    \/ /\ p.kind = "subheader" /\ msg = AliceScene /\ p.text = <<"Scene">>
OmittedFrom(e, msg) == e[2] = NameOf(msg) /\ e[3] = clean_html(msg.content)

\* the blocks and the omitted entries are made of the messages in their
\* order: every message with content accounts for the next block or the next
\* omitted entry, a message without content for nothing
RECURSIVE Accounted(_, _, _)
Accounted(blocks, removed, msgs) ==
    IF msgs = <<>> THEN blocks = <<>> /\ removed = <<>>
    ELSE IF EmptyContent(Head(msgs)) THEN Accounted(blocks, removed, Tail(msgs))
    ELSE \/ /\ blocks # <<>> /\ BlockFrom(Head(blocks), Head(msgs))
            /\ Accounted(Tail(blocks), removed, Tail(msgs))
         \/ /\ removed # <<>> /\ OmittedFrom(Head(removed), Head(msgs))
            /\ Accounted(blocks, Tail(removed), Tail(msgs))

\* the loop run afresh over a list of messages
RECURSIVE Replay(_)
Replay(msgs) ==
    IF msgs = <<>> THEN [blocks |-> <<>>, removed |-> <<>>, last_key |-> None]
    ELSE LET before == Replay(SubSeq(msgs, 1, Len(msgs) - 1))
             out    == classify(msgs[Len(msgs)], before.last_key)
         IN  [blocks   |-> before.blocks \o out.paras,
              removed  |-> before.removed \o out.removed,
              last_key |-> out.last_key]

(* C16: within a session the messages are classified in list order with no  *)
(* lookahead and no backtracking: a step appends at most one entry, to the  *)
(* blocks or to the omitted list, made of the message it consumed, and      *)
(* leaves every earlier entry as it was; so both outputs follow the order   *)
(* of the messages, and what the session holds after message i is what the  *)
(* loop makes of messages 1..i alone.                                       *)
C16_Step ==
    IsStep =>
        /\ messages' = Append(messages, NewMsg)
        /\ IsPrefix(doc, doc') /\ IsPrefix(removed_list, removed_list')
        /\ (Len(doc') - Len(doc)) + (Len(removed_list') - Len(removed_list)) <= 1
        /\ Len(doc') > Len(doc) => BlockFrom(doc'[Len(doc')], NewMsg)
        /\ Len(removed_list') > Len(removed_list) =>
              OmittedFrom(removed_list'[Len(removed_list')], NewMsg)
C16_State ==
    pc = "loop" =>
        /\ Accounted(SessionBlocks, removed_list, messages)
        /\ Replay(messages) =
              [blocks |-> SessionBlocks, removed |-> removed_list, last_key |-> last_key]
C16_NoLookaheadNoBacktrack == []C16_State /\ [][C16_Step]_vars

\* a written message, its omitted duplicate, a subheader: two blocks and one
\* omitted entry, each in the order of the messages
C16_Witness ==
    /\ messages = <<AliceHello, AliceHelloLoose, AliceScene>>
    /\ Len(SessionBlocks) = 2 /\ SessionBlocks[2].kind = "subheader"
    /\ Len(removed_list) = 1 /\ removed_list[1][1] = "DUPLICATE"

====
